---- MODULE Spec2Model ----
(***************************************************************************)
(* A model of the PointNet notebook src/Copy_of_pointnet.ipynb: the        *)
(* notebook's code cells run top to bottom (one position per cell, the     *)
(* loops of parse_dataset and of the plotting cell one iteration at a      *)
(* time), and the notebook's own functions (parse_dataset, augment,        *)
(* OrthogonalRegularizer.__call__, tnet) computed as the code computes     *)
(* them.  Coordinates are fixed-point numbers in units of 0.001, a number  *)
(* standing for the cell [k, k + 1) of the grid it falls in; the calls     *)
(* into trimesh, tf.data and keras are modelled by their documented        *)
(* results, a random draw being a choice over the possible draws.          *)
(***************************************************************************)
EXTENDS Integers, Sequences, FiniteSets, TLC

(* ------------------------------ bounds ------------------------------- *)
\* Points per sampled cloud: the notebook's NUM_POINTS (2048), scaled down.
NUM_POINTS == 2
\* Longest directory listing built from the catalogue of entries.
MaxEntries == 3
\* Largest number of class directories in a ModelNet-like directory.
MaxClasses == 11
\* Direct calls: the largest num_features, batch and number of examples, the
\* width of the layer before tnet's final Dense layer (the notebook's 128,
\* scaled down), and the number of pseudo-random fillings of an argument.
MaxFeatures == 2
MaxBatch == 2
MaxExamples == 2
HiddenWidth == 2
MaxSeed == 5

(* ------------------------- program constants ------------------------- *)
NUM_CLASSES == 10
BATCH_SIZE == 32
EPOCHS == 20
\* points[:8] / range(8) of the plotting cell.
PLOT_COUNT == 8

(* ------------------------------ helpers ------------------------------ *)
EmptyMap == [k \in {} |-> ""]

Range(s) == {s[k] : k \in DOMAIN s}

RemoveAt(s, k) == SubSeq(s, 1, k - 1) \o SubSeq(s, k + 1, Len(s))

\* python's seq[:n]
Take(s, n) == SubSeq(s, 1, IF Len(s) < n THEN Len(s) ELSE n)

(* --------------------------- the file system -------------------------- *)
P0 == <<0, 0, 0>>
P1 == <<1000, 0, 500>>

\* A mesh file: loadable or not, and the points of its surface.
MeshA == [ok |-> TRUE, surface |-> {P0}]
MeshB == [ok |-> TRUE, surface |-> {P0, P1}]
MeshBad == [ok |-> FALSE, surface |-> {}]

File(n, m) == [name |-> n, mesh |-> m]

Entry(n, d, tr, te) == [name |-> n, isdir |-> d, train |-> tr, test |-> te]

Readme == Entry("README.txt", FALSE, <<>>, <<>>)
Chair == Entry("chair", TRUE, <<File("chair_0001.off", MeshA)>>,
               <<File("chair_0890.off", MeshB)>>)
\* chair without test files.
ChairTrainOnly == Entry("chair", TRUE, <<File("chair_0001.off", MeshA)>>, <<>>)
Sofa == Entry("sofa", TRUE, <<File("sofa_0001.off", MeshB)>>,
              <<File("sofa_0681.off", MeshA)>>)
Bed == Entry("bed", TRUE,
             <<File("bed_0001.off", MeshA), File("bed_0002.off", MeshBad)>>,
             <<File("bed_0516.off", MeshA)>>)
Monitor == Entry("monitor", TRUE, <<>>, <<File("monitor_0466.off", MeshBad)>>)
Table == Entry("table", TRUE, <<>>, <<>>)
Desk == Entry("Desk", TRUE, <<File("desk_0001.off", MeshA)>>,
              <<File("desk_0201.off", MeshA)>>)

Catalogue == {Readme, Chair, ChairTrainOnly, Sofa, Bed, Monitor, Table, Desk}

\* Class names of a ModelNet directory, "chair" excepted.
ModelNames == <<"bathtub", "bed", "desk", "dresser", "monitor", "night_stand",
                "sofa", "table", "toilet", "airplane", "bench", "bottle",
                "bowl", "car">>

\* The first character of each entry name.
FirstChar(name) ==
    CASE name = "README.txt" -> "R"
      [] name = "Desk" -> "D"
      [] name = "chair" -> "c"
      [] name = "sofa" -> "s"
      [] name \in {"bed", "bathtub", "bench", "bottle", "bowl"} -> "b"
      [] name = "monitor" -> "m"
      [] name \in {"table", "toilet"} -> "t"
      [] name \in {"desk", "dresser"} -> "d"
      [] name = "night_stand" -> "n"
      [] name = "airplane" -> "a"
      [] name = "car" -> "c"

\* Listings of at most MaxEntries catalogue entries, in any listing order.
RECURSIVE SmallDirs(_)
SmallDirs(n) ==
    IF n = 0 THEN {<<>>}
    ELSE LET shorter == SmallDirs(n - 1)
         IN  shorter \cup {Append(d, e) : d \in {x \in shorter : Len(x) = n - 1},
                                          e \in Catalogue}

\* A ModelNet-like directory of n class directories: the README, n - 1 empty
\* class directories, and chair with one train file and PLOT_COUNT test files.
ChairTestNames == <<"chair_0890.off", "chair_0891.off", "chair_0892.off",
                    "chair_0893.off", "chair_0894.off", "chair_0895.off",
                    "chair_0896.off", "chair_0897.off">>

LargeChair ==
    Entry("chair", TRUE, <<File("chair_0001.off", MeshA)>>,
          [k \in 1..PLOT_COUNT |-> File(ChairTestNames[k], MeshA)])

LargeDir(n) ==
    <<Readme>> \o [k \in 1..(n - 1) |-> Entry(ModelNames[k], TRUE, <<>>, <<>>)]
               \o <<LargeChair>>

Directories ==
    {d \in SmallDirs(MaxEntries) :
        \A a, b \in DOMAIN d : a # b => d[a].name # d[b].name}
    \cup {LargeDir(n) : n \in (NUM_CLASSES - 1)..MaxClasses}

(* ------------------------- library functions -------------------------- *)
\* glob.glob(os.path.join(DATA_DIR, "[!README]*")): the entries whose first
\* character is none of R, E, A, D, M, in listing order.
GlobFolders(d) ==
    SelectSeq(d, LAMBDA e : FirstChar(e.name) \notin {"R", "E", "A", "D", "M"})

\* trimesh.load(f).sample(count): count points of the mesh's surface.
Sample(mesh, count) == [1..count -> mesh.surface]

\* numpy's shape of an array of point clouds.
Shape(cloud) == <<Len(cloud), IF Len(cloud) = 0 THEN 0 ELSE Len(cloud[1])>>

(* ------------------------------ tf.data ------------------------------- *)
\* tf.data.Dataset.from_tensor_slices((points, labels)): one example per
\* leading index.
FromTensorSlices(pts, lbls) ==
    [k \in 1..Len(pts) |-> [points |-> pts[k], label |-> lbls[k]]]

\* The orders a full-buffer shuffle (tf.random.shuffle, Dataset.shuffle with
\* buffer_size = len) can emit: every permutation of s along its first axis.
RECURSIVE ShuffleOutcomes(_)
ShuffleOutcomes(s) ==
    IF s = <<>> THEN {<<>>}
    ELSE UNION {{<<s[k]>> \o r : r \in ShuffleOutcomes(RemoveAt(s, k))} :
                  k \in {j \in DOMAIN s : \A h \in 1..(j - 1) : s[h] # s[j]}}

\* Dataset.batch(size): consecutive groups of at most size examples.
RECURSIVE Batch(_, _)
Batch(s, size) ==
    IF s = <<>> THEN <<>>
    ELSE <<Take(s, size)>> \o Batch(SubSeq(s, size + 1, Len(s)), size)

(* ------------------------------ augment ------------------------------- *)
\* tf.random.uniform(..., -0.005, 0.005) in units of 0.001: [-5, 5).
JITTER_MIN == -5
JITTER_MAX == 5

\* A draw with the upper end included.
UniformOutcomes_Closed(shape, lo, hi) ==
    [1..shape[1] -> [1..shape[2] -> lo..hi]]

\* The draws of tf.random.uniform(shape, lo, hi): every entry, independently,
\* any value of [lo, hi).
UniformOutcomes(shape, lo, hi) ==
    [1..shape[1] -> [1..shape[2] -> lo..(hi - 1)]]

\* points += noise
AddNoise(pts, noise) ==
    [k \in DOMAIN pts |-> [c \in DOMAIN pts[k] |-> pts[k][c] + noise[k][c]]]

\* augment(points, label) once the jitter is drawn: the jittered points,
\* shuffled along the point axis, and the label.
AugmentWith(pts, label, noise) ==
    {[points |-> sh, label |-> label] : sh \in ShuffleOutcomes(AddNoise(pts, noise))}

\* augment(points, label): jitter, then shuffle along the point axis.
AugmentOutcomes(pts, label) ==
    UNION {AugmentWith(pts, label, noise) :
             noise \in UniformOutcomes(Shape(pts), JITTER_MIN, JITTER_MAX)}

\* The jitters augment can draw for the examples of s, one per example (the
\* examples of a dataset are slices of one array: they have one shape).
NoiseDraws(s) ==
    IF s = <<>> THEN {<<>>}
    ELSE [DOMAIN s -> UniformOutcomes(Shape(s[1].points), JITTER_MIN, JITTER_MAX)]

\* Dataset.map(augment) once the jitters are drawn: every example replaced by
\* a result of augment with its jitter.
RECURSIVE MapAugmentWith(_, _)
MapAugmentWith(s, noises) ==
    IF s = <<>> THEN {<<>>}
    ELSE {<<e>> \o r : e \in AugmentWith(s[1].points, s[1].label, noises[1]),
                       r \in MapAugmentWith(Tail(s), Tail(noises))}

\* train_dataset / test_dataset: the examples and the transformations applied
\* to them on every pass.
TrainOps == <<"shuffle", "augment", "batch">>
TestOps == <<"shuffle", "batch">>

\* Dataset.from_tensor_slices(...) alone: no transformation yet.
Slices(pts, lbls) == [examples |-> FromTensorSlices(pts, lbls), ops |-> <<>>]

TrainDataset(pts, lbls) == [Slices(pts, lbls) EXCEPT !.ops = TrainOps]
TestDataset(pts, lbls) == [Slices(pts, lbls) EXCEPT !.ops = TestOps]

NoDataset == [examples |-> <<>>, ops |-> <<>>]

\* One transformation, over the jitters drawn for the pass (the shuffle comes
\* before the map: the k-th jitter goes to the k-th example augmented).
ApplyOpWith(op, S, noises) ==
    CASE op = "shuffle" -> UNION {ShuffleOutcomes(s) : s \in S}
      [] op = "augment" -> UNION {MapAugmentWith(s, noises) : s \in S}
      [] op = "batch" -> {Batch(s, BATCH_SIZE) : s \in S}

RECURSIVE ApplyOpsWith(_, _, _)
ApplyOpsWith(ops, S, noises) ==
    IF ops = <<>> THEN S
    ELSE ApplyOpsWith(Tail(ops), ApplyOpWith(Head(ops), S, noises), noises)

\* The sequences of batches one pass over a dataset yields with these jitters.
IterWith(ds, noises) == ApplyOpsWith(ds.ops, {ds.examples}, noises)

\* The sequences of batches one pass over a dataset can yield.
IterOutcomes(ds) ==
    IF "augment" \in Range(ds.ops)
    THEN UNION {IterWith(ds, ns) : ns \in NoiseDraws(ds.examples)}
    ELSE IterWith(ds, <<>>)

(* ------------------------------ tensors ------------------------------- *)
\* A tensor: its shape and its entries in row-major order.
RECURSIVE Size(_)
Size(shape) == IF shape = <<>> THEN 1 ELSE Head(shape) * Size(Tail(shape))

RECURSIVE SumSeq(_)
SumSeq(s) == IF s = <<>> THEN 0 ELSE Head(s) + SumSeq(Tail(s))

Tensor(shape, entry(_)) ==
    [shape |-> shape, data |-> [f \in 1..Size(shape) |-> entry(f - 1)]]

\* tf.reshape(t, (-1,) + tail): the same entries, regrouped.
Reshape(t, tail) ==
    [shape |-> <<Size(t.shape) \div Size(tail)>> \o tail, data |-> t.data]

\* tf.eye(n)
Eye(n) == Tensor(<<n, n>>, LAMBDA f : IF f \div n = f % n THEN 1 ELSE 0)

\* tf.tensordot(x, x, axes=(2, 2)) of x of shape (B, n, m): shape (B, n, B, n),
\* entry [a, i, b, j] the sum over k of x[a, i, k] * x[b, j, k].
TensorDot22(x) ==
    LET B == x.shape[1]
        n == x.shape[2]
        m == x.shape[3]
        at(a, i, k) == x.data[(a * n + i) * m + k + 1]
    IN  Tensor(<<B, n, B, n>>,
               LAMBDA f : LET j == f % n
                              b == (f \div n) % B
                              i == (f \div (n * B)) % n
                              a == f \div (n * B * n)
                          IN  SumSeq([k \in 1..m |-> at(a, i, k - 1) * at(b, j, k - 1)]))

\* t - e for t of shape (M, n, n) and e of shape (n, n), e broadcast over M.
BroadcastSub(t, e) ==
    Tensor(t.shape, LAMBDA f : t.data[f + 1] - e.data[(f % Size(e.shape)) + 1])

Square(t) == Tensor(t.shape, LAMBDA f : t.data[f + 1] * t.data[f + 1])

Scale(c, t) == Tensor(t.shape, LAMBDA f : c * t.data[f + 1])

ReduceSum(t) == SumSeq(t.data)

(* ----------------------- OrthogonalRegularizer ------------------------ *)
\* l2reg = 0.001, in units of 0.001 (penalties are in these units).
L2REG == 1

\* OrthogonalRegularizer(num_features).__call__(x)
OrthogonalRegularizer(num_features, x) ==
    LET x3 == Reshape(x, <<num_features, num_features>>)
        xxt == TensorDot22(x3)
        xxt3 == Reshape(xxt, <<num_features, num_features>>)
    IN  ReduceSum(Scale(L2REG, Square(BroadcastSub(xxt3, Eye(num_features)))))

(* -------------------------------- tnet -------------------------------- *)
\* The final Dense layer's weights as tnet creates them: kernel_initializer
\* "zeros", bias_initializer Constant(np.eye(num_features).flatten()).
TnetKernelInit(width, num_features) ==
    Tensor(<<width, num_features * num_features>>, LAMBDA f : 0)

\* The default bias initializer, zeros.
TnetBiasInit_Zeros(num_features) ==
    Tensor(<<num_features * num_features>>, LAMBDA f : 0)

TnetBiasInit(num_features) == Reshape(Eye(num_features), <<>>)

\* layers.Dense(units)(h): h . kernel + bias, for h of shape (B, width).
Dense(h, kernel, bias) ==
    LET width == h.shape[2]
        units == kernel.shape[2]
    IN  Tensor(<<h.shape[1], units>>,
               LAMBDA f : LET u == f % units
                              b == f \div units
                          IN  SumSeq([k \in 1..width |->
                                        h.data[b * width + k] * kernel.data[(k - 1) * units + u + 1]])
                              + bias.data[u + 1])

\* layers.Dot(axes=(2, 1))([a, t]) for a of shape (B, N, n), t of (B, n, n).
BatchDot21(a, t) ==
    LET N == a.shape[2]
        n == a.shape[3]
    IN  Tensor(<<a.shape[1], N, n>>,
               LAMBDA f : LET j == f % n
                              q == (f \div n) % N
                              b == f \div (n * N)
                          IN  SumSeq([k \in 1..n |->
                                        a.data[(b * N + q) * n + k] * t.data[(b * n + k - 1) * n + j + 1]]))

\* tnet(inputs, num_features) with the given weights of its final Dense layer;
\* h is the output of the dense_bn(x, 128) before it.  The result, the
\* transformation applied and the activity regularizer's penalty.
Tnet(inputs, num_features, h, kernel, bias) ==
    LET x == Dense(h, kernel, bias)
        feat_T == [shape |-> <<h.shape[1], num_features, num_features>>, data |-> x.data]
    IN  [output |-> BatchDot21(inputs, feat_T),
         feat_T |-> feat_T,
         penalty |-> OrthogonalRegularizer(num_features, x)]

(* ------------------------------- state -------------------------------- *)
VARIABLES
    pc,              \* the cell (or loop) the notebook run is at
    failure,         \* the stage an uncaught exception ended the run in
    error,           \* the exception's kind
    dir,             \* the listing of the extracted ModelNet10 directory
    bound,           \* the global names bound so far
    mesh,            \* global mesh of the preview cell
    points, labels,  \* global points / labels (preview, then plotting cell)
    \* parse_dataset's locals
    num_points, folders, fi, phase, fidx, train_files, test_files,
    p_train_points, p_test_points, p_train_labels, p_test_labels, class_map,
    \* the globals bound from parse_dataset's result
    train_points, test_points, train_labels, test_labels, CLASS_MAP,
    train_dataset, test_dataset,
    model, epoch,
    plot_i, title,
    \* history: the files handed to trimesh.load, the file behind each
    \* appended cloud, the reads of CLASS_MAP, the stages started/returned
    load_log, train_src, test_src, class_map_reads, stage_log,
    \* a direct call of one of the notebook's functions: arguments and result
    call

parseLocals ==
    <<num_points, folders, fi, phase, fidx, train_files, test_files,
      p_train_points, p_test_points, p_train_labels, p_test_labels, class_map,
      load_log, train_src, test_src>>
parsed == <<train_points, test_points, train_labels, test_labels, CLASS_MAP>>
datasets == <<train_dataset, test_dataset>>
plotVars == <<plot_i, title, class_map_reads>>
previewVars == <<mesh, points, labels>>
runVars == <<pc, failure, error, dir, bound, stage_log>>

vars == <<runVars, previewVars, parseLocals, parsed, datasets, model, epoch,
          plotVars, call>>

NoCall == [fn |-> "none"]
\* No array is parsed yet: train_points, train_labels, test_points, test_labels.
NoArrays == <<<<>>, <<>>, <<>>, <<>>>>
\* A call not made yet, and its arguments.
Pending(a) == [fn |-> "none", args |-> a]
NoModel == [state |-> "undefined", input_shape |-> <<0, 0>>, classes |-> 0]

\* Nothing has run yet: the run is at cell `at`, over the directory d.
\* The names the import cell binds.
Imports == {"os", "glob", "trimesh", "np", "tf", "keras", "layers", "plt"}

InitAt(at, d, names, c, arrays) ==
    /\ pc = at /\ failure = "none" /\ error = "none"
    /\ dir = d
    /\ bound = names
    /\ mesh = MeshBad /\ points = <<>> /\ labels = <<>>
    /\ num_points = 0 /\ folders = <<>> /\ fi = 0 /\ phase = "idle" /\ fidx = 0
    /\ train_files = <<>> /\ test_files = <<>>
    /\ p_train_points = <<>> /\ p_test_points = <<>>
    /\ p_train_labels = <<>> /\ p_test_labels = <<>> /\ class_map = EmptyMap
    /\ train_points = arrays[1] /\ train_labels = arrays[2]
    /\ test_points = arrays[3] /\ test_labels = arrays[4]
    /\ CLASS_MAP = EmptyMap
    /\ train_dataset = NoDataset /\ test_dataset = NoDataset
    /\ model = NoModel /\ epoch = 0
    /\ plot_i = 0 /\ title = <<>> /\ class_map_reads = 0
    /\ load_log = <<>> /\ train_src = <<>> /\ test_src = <<>>
    /\ stage_log = <<>>
    /\ call = c

Init == \E d \in Directories : InitAt("fetch", d, Imports, NoCall, NoArrays)

\* An uncaught exception ends the cell and the run.
Raise(stage, kind) ==
    /\ pc' = "failed" /\ failure' = stage /\ error' = kind

Start(stage) == <<"start", stage>>
Return(stage) == <<"return", stage>>

(* ------------------- cells before parse_dataset ----------------------- *)
\* DATA_DIR = tf.keras.utils.get_file(...): the download can fail.
Fetch ==
    /\ pc = "fetch"
    /\ \/ /\ pc' = "show_mesh"
          /\ bound' = bound \cup {"DATA_DIR"}
          /\ stage_log' = stage_log \o <<Start("fetch"), Return("fetch")>>
          /\ UNCHANGED <<failure, error>>
       \/ /\ Raise("fetch", "Exception")
          /\ stage_log' = Append(stage_log, Start("fetch"))
          /\ UNCHANGED bound
    /\ UNCHANGED <<dir, previewVars, parseLocals, parsed, datasets, model,
                   epoch, plotVars, call>>

\* The files DATA_DIR/chair/train/chair_0001.off names.
PreviewFiles(d) ==
    UNION {{f \in Range(d[k].train) : f.name = "chair_0001.off"} :
             k \in {x \in DOMAIN d : d[x].name = "chair" /\ d[x].isdir}}

\* mesh = trimesh.load(".../chair/train/chair_0001.off"); mesh.show()
ShowMesh ==
    /\ pc = "show_mesh"
    /\ \/ /\ \E f \in PreviewFiles(dir) :
                /\ f.mesh.ok
                /\ mesh' = f.mesh
          /\ pc' = "preview"
          /\ bound' = bound \cup {"mesh"}
          /\ stage_log' = Append(stage_log, Start("preview"))
          /\ UNCHANGED <<failure, error>>
       \/ /\ \A f \in PreviewFiles(dir) : ~f.mesh.ok
          /\ Raise("preview", "ValueError")
          /\ stage_log' = Append(stage_log, Start("preview"))
          /\ UNCHANGED <<bound, mesh>>
    /\ UNCHANGED <<dir, points, labels, parseLocals, parsed, datasets, model,
                   epoch, plotVars, call>>

\* points = mesh.sample(2048), then the scatter plot of the sample.
Preview ==
    /\ pc = "preview"
    /\ points' \in Sample(mesh, NUM_POINTS)
    /\ pc' = "parse"
    /\ bound' = bound \cup {"points", "fig", "ax"}
    /\ stage_log' = Append(stage_log, Return("preview"))
    /\ UNCHANGED <<failure, error, dir, mesh, labels, parseLocals, parsed,
                   datasets, model, epoch, plotVars, call>>

(* --------------------------- parse_dataset ---------------------------- *)
\* parse_dataset is defined, NUM_POINTS, NUM_CLASSES, BATCH_SIZE are set and
\* parse_dataset(NUM_POINTS) is entered: its lists are empty and folders is the
\* glob of DATA_DIR.
ParseArgument == NUM_POINTS

ParseStart ==
    /\ pc = "parse" /\ phase = "idle"
    /\ bound' = bound \cup {"parse_dataset", "NUM_POINTS", "NUM_CLASSES",
                            "BATCH_SIZE"}
    /\ num_points' = ParseArgument
    /\ folders' = GlobFolders(dir)
    /\ fi' = 0 /\ phase' = "folder"
    /\ p_train_points' = <<>> /\ p_test_points' = <<>>
    /\ p_train_labels' = <<>> /\ p_test_labels' = <<>>
    /\ class_map' = EmptyMap
    /\ stage_log' = Append(stage_log, Start("parse"))
    /\ UNCHANGED <<pc, failure, error, dir, previewVars, fidx, train_files,
                   test_files, load_log, train_src, test_src, parsed, datasets,
                   model, epoch, plotVars, call>>

\* glob.glob(os.path.join(folder, split + "/*")): nothing under a plain file.
GlobFiles(folder, split) ==
    IF ~folder.isdir THEN <<>>
    ELSE IF split = "train" THEN folder.train ELSE folder.test

\* for i, folder in enumerate(folders): class_map[i] = name; list the files.
ClassMapEntry(i, folder) == i :> folder.name

ParseFolder ==
    /\ pc = "parse" /\ phase = "folder" /\ fi < Len(folders)
    /\ LET folder == folders[fi + 1]
       IN  /\ class_map' = ClassMapEntry(fi, folder) @@ class_map
           /\ train_files' = GlobFiles(folder, "train")
           /\ test_files' = GlobFiles(folder, "test")
    /\ phase' = "train" /\ fidx' = 1
    /\ UNCHANGED <<runVars, previewVars, num_points, folders, fi,
                   p_train_points, p_test_points, p_train_labels, p_test_labels,
                   load_log, train_src, test_src, parsed, datasets, model,
                   epoch, plotVars, call>>

\* Labels counted from 1, as enumerate(folders, 1) would.
LabelOf_FromOne(i) == i + 1

\* The label appended with a cloud sampled in the i-th folder.
LabelOf(i) == i

\* One point short of the requested count.
SampleCount_Short == num_points - 1

\* The count passed to sample().
SampleCount == num_points

\* A failed load skipped, as a try/except around it would.
OnLoadError_Skip ==
    /\ fidx' = fidx + 1
    /\ UNCHANGED <<pc, failure, error>>

\* trimesh.load(f).sample(...) raising inside the loops: nothing catches it.
OnLoadError ==
    /\ Raise("parse", "ValueError")
    /\ UNCHANGED fidx

\* for f in train_files: append the sample and the label, or raise.
ParseTrainFile ==
    /\ pc = "parse" /\ phase = "train" /\ fidx <= Len(train_files)
    /\ LET f == train_files[fidx]
       IN  /\ load_log' = Append(load_log, f.name)
           /\ \/ /\ f.mesh.ok
                 /\ \E cloud \in Sample(f.mesh, SampleCount) :
                        p_train_points' = Append(p_train_points, cloud)
                 /\ p_train_labels' = Append(p_train_labels, LabelOf(fi))
                 /\ train_src' =
                        Append(train_src, [folder |-> folders[fi + 1].name, file |-> f])
                 /\ fidx' = fidx + 1
                 /\ UNCHANGED <<pc, failure, error>>
              \/ /\ ~f.mesh.ok
                 /\ OnLoadError
                 /\ UNCHANGED <<p_train_points, p_train_labels, train_src>>
    /\ UNCHANGED <<dir, bound, stage_log, previewVars, num_points, folders, fi,
                   phase, train_files, test_files, p_test_points, p_test_labels,
                   test_src, class_map, parsed, datasets, model, epoch, plotVars,
                   call>>

ParseTrainDone ==
    /\ pc = "parse" /\ phase = "train" /\ fidx > Len(train_files)
    /\ phase' = "test" /\ fidx' = 1
    /\ UNCHANGED <<runVars, previewVars, num_points, folders, fi, train_files,
                   test_files, p_train_points, p_test_points, p_train_labels,
                   p_test_labels, class_map, load_log, train_src, test_src,
                   parsed, datasets, model, epoch, plotVars, call>>

\* for f in test_files: append the sample and the label, or raise.
ParseTestFile ==
    /\ pc = "parse" /\ phase = "test" /\ fidx <= Len(test_files)
    /\ LET f == test_files[fidx]
       IN  /\ load_log' = Append(load_log, f.name)
           /\ \/ /\ f.mesh.ok
                 /\ \E cloud \in Sample(f.mesh, SampleCount) :
                        p_test_points' = Append(p_test_points, cloud)
                 /\ p_test_labels' = Append(p_test_labels, LabelOf(fi))
                 /\ test_src' =
                        Append(test_src, [folder |-> folders[fi + 1].name, file |-> f])
                 /\ fidx' = fidx + 1
                 /\ UNCHANGED <<pc, failure, error>>
              \/ /\ ~f.mesh.ok
                 /\ OnLoadError
                 /\ UNCHANGED <<p_test_points, p_test_labels, test_src>>
    /\ UNCHANGED <<dir, bound, stage_log, previewVars, num_points, folders, fi,
                   phase, train_files, test_files, p_train_points,
                   p_train_labels, train_src, class_map, parsed, datasets, model,
                   epoch, plotVars, call>>

\* The end of the folder's iteration: on to the next folder.
ParseTestDone ==
    /\ pc = "parse" /\ phase = "test" /\ fidx > Len(test_files)
    /\ phase' = "folder" /\ fi' = fi + 1
    /\ UNCHANGED <<runVars, previewVars, num_points, folders, fidx, train_files,
                   test_files, p_train_points, p_test_points, p_train_labels,
                   p_test_labels, class_map, load_log, train_src, test_src,
                   parsed, datasets, model, epoch, plotVars, call>>

\* return (...): the five results are bound to the notebook's globals.
ParseReturn ==
    /\ pc = "parse" /\ phase = "folder" /\ fi = Len(folders)
    /\ train_points' = p_train_points /\ test_points' = p_test_points
    /\ train_labels' = p_train_labels /\ test_labels' = p_test_labels
    /\ CLASS_MAP' = class_map
    /\ bound' = bound \cup {"train_points", "test_points", "train_labels",
                            "test_labels", "CLASS_MAP"}
    /\ phase' = "returned"
    /\ pc' = "datasets"
    /\ stage_log' = Append(stage_log, Return("parse"))
    /\ UNCHANGED <<failure, error, dir, previewVars, num_points, folders, fi,
                   fidx, train_files, test_files, p_train_points, p_test_points,
                   p_train_labels, p_test_labels, class_map, load_log, train_src,
                   test_src, datasets, model, epoch, plotVars, call>>

(* ------------------- datasets, model, training ------------------------ *)
\* def augment; train_dataset = from_tensor_slices(...); test_dataset =
\* from_tensor_slices(...); then each is rebound to its shuffled (augmented)
\* and batched dataset.  Dataset.shuffle rejects a buffer_size of 0: the cell
\* ends there, with what the statements before it have bound.
BuildDatasets ==
    /\ pc = "datasets"
    /\ bound' = bound \cup {"augment", "train_dataset", "test_dataset"}
    /\ \/ /\ Len(train_points) > 0 /\ Len(test_points) > 0
          /\ train_dataset' = TrainDataset(train_points, train_labels)
          /\ test_dataset' = TestDataset(test_points, test_labels)
          /\ pc' = "model"
          /\ stage_log' = stage_log \o <<Start("datasets"), Return("datasets")>>
          /\ UNCHANGED <<failure, error>>
       \/ /\ Len(train_points) = 0
          /\ train_dataset' = Slices(train_points, train_labels)
          /\ test_dataset' = Slices(test_points, test_labels)
          /\ Raise("datasets", "InvalidArgumentError")
          /\ stage_log' = Append(stage_log, Start("datasets"))
       \/ /\ Len(train_points) > 0 /\ Len(test_points) = 0
          /\ train_dataset' = TrainDataset(train_points, train_labels)
          /\ test_dataset' = Slices(test_points, test_labels)
          /\ Raise("datasets", "InvalidArgumentError")
          /\ stage_log' = Append(stage_log, Start("datasets"))
    /\ UNCHANGED <<dir, previewVars, parseLocals, parsed, model, epoch,
                   plotVars, call>>

\* conv_bn, dense_bn, OrthogonalRegularizer, tnet, and the model built of
\* them: inputs of shape (NUM_POINTS, 3), a NUM_CLASSES-way softmax output.
DefineModel ==
    /\ pc = "model"
    /\ model' = [state |-> "built", input_shape |-> <<NUM_POINTS, 3>>,
                 classes |-> NUM_CLASSES]
    /\ bound' = bound \cup {"conv_bn", "dense_bn", "OrthogonalRegularizer",
                            "tnet", "inputs", "x", "outputs", "model"}
    /\ pc' = "fit"
    /\ stage_log' = stage_log \o <<Start("model"), Return("model")>>
    /\ UNCHANGED <<failure, error, dir, previewVars, parseLocals, parsed,
                   datasets, epoch, plotVars, call>>

\* model.compile(...)
Compile ==
    /\ pc = "fit" /\ model.state = "built"
    /\ model' = [model EXCEPT !.state = "compiled"]
    /\ stage_log' = Append(stage_log, Start("fit"))
    /\ UNCHANGED <<pc, failure, error, dir, bound, previewVars, parseLocals,
                   parsed, datasets, epoch, plotVars, call>>

\* The labels the loss is computed on, in training and in validation.
FitLabels ==
    {e.label : e \in Range(train_dataset.examples) \cup Range(test_dataset.examples)}

\* One epoch of model.fit(train_dataset, epochs=20, validation_data=...).
\* A label outside the softmax's range raises on a CPU and yields a NaN loss
\* on a GPU.
FitEpoch ==
    /\ pc = "fit" /\ model.state = "compiled" /\ epoch < EPOCHS
    /\ \/ /\ epoch' = epoch + 1
          /\ UNCHANGED <<pc, failure, error>>
       \/ /\ \E l \in FitLabels : l < 0 \/ l >= model.classes
          /\ Raise("fit", "InvalidArgumentError")
          /\ UNCHANGED epoch
    /\ UNCHANGED <<dir, bound, stage_log, previewVars, parseLocals, parsed,
                   datasets, model, plotVars, call>>

FitDone ==
    /\ pc = "fit" /\ model.state = "compiled" /\ epoch = EPOCHS
    /\ model' = [model EXCEPT !.state = "trained"]
    /\ pc' = "predict"
    /\ stage_log' = Append(stage_log, Return("fit"))
    /\ UNCHANGED <<failure, error, dir, bound, previewVars, parseLocals, parsed,
                   datasets, epoch, plotVars, call>>

(* ---------------------- inference and plotting ------------------------ *)
\* data = test_dataset.take(1); points, labels = list(data)[0], cut to the
\* first 8; preds = argmax(model.predict(points)).
Predict ==
    /\ pc = "predict"
    /\ \E batches \in IterOutcomes(test_dataset) :
          LET first == Take(batches[1], PLOT_COUNT)
          IN  /\ points' = [k \in DOMAIN first |-> first[k].points]
              /\ labels' = [k \in DOMAIN first |-> first[k].label]
    /\ bound' = bound \cup {"data", "points", "labels", "preds"}
    /\ pc' = "plot" /\ plot_i' = 0
    /\ stage_log' = stage_log \o
            <<Start("inference"), Return("inference"), Start("plot")>>
    /\ UNCHANGED <<failure, error, dir, mesh, parseLocals, parsed, datasets,
                   model, epoch, title, class_map_reads, call>>

\* A softmax output one unit wider than the model's class count.
PredOutcomes_Wider == 0..model.classes

\* The class index predicted for an example: any index of the softmax output
\* (it depends on the trained weights), drawn when preds[i] is read.
PredOutcomes == 0..(model.classes - 1)

\* A dict that inserts a default for a missing key when it is read.
AfterLookup_Default(cm, key) ==
    IF key \in DOMAIN cm THEN cm ELSE (key :> "unknown") @@ cm

\* CLASS_MAP after the read CLASS_MAP[key]: a dict's subscript changes nothing.
AfterLookup(cm, key) == cm

\* One iteration of the plotting loop `for i in range(8)`: the scatter plot of
\* points[i], then the title from CLASS_MAP[preds[i]] and CLASS_MAP[labels[i]],
\* in this order.
PlotStep ==
    /\ pc = "plot" /\ plot_i < PLOT_COUNT
    /\ bound' = bound \cup {"i"}
    /\ \/ /\ plot_i >= Len(points)
          /\ Raise("plot", "IndexError")
          /\ UNCHANGED <<plotVars, CLASS_MAP>>
       \/ /\ plot_i < Len(points)
          /\ \E p \in PredOutcomes :
                LET l == labels[plot_i + 1]
                IN  \/ /\ p \notin DOMAIN CLASS_MAP
                       /\ class_map_reads' = class_map_reads + 1
                       /\ CLASS_MAP' = AfterLookup(CLASS_MAP, p)
                       /\ Raise("plot", "KeyError")
                       /\ UNCHANGED <<plot_i, title>>
                    \/ /\ p \in DOMAIN CLASS_MAP /\ l \notin DOMAIN CLASS_MAP
                       /\ class_map_reads' = class_map_reads + 2
                       /\ CLASS_MAP' = AfterLookup(AfterLookup(CLASS_MAP, p), l)
                       /\ Raise("plot", "KeyError")
                       /\ UNCHANGED <<plot_i, title>>
                    \/ /\ p \in DOMAIN CLASS_MAP /\ l \in DOMAIN CLASS_MAP
                       /\ class_map_reads' = class_map_reads + 2
                       /\ CLASS_MAP' = AfterLookup(AfterLookup(CLASS_MAP, p), l)
                       /\ title' = <<CLASS_MAP[p], CLASS_MAP[l]>>
                       /\ plot_i' = plot_i + 1
                       /\ UNCHANGED <<pc, failure, error>>
    /\ UNCHANGED <<dir, stage_log, previewVars, parseLocals,
                   train_points, test_points, train_labels, test_labels,
                   datasets, model, epoch, call>>

\* The plotting cell handing control back to the inference statements.
PlotShow_Again ==
    /\ pc = "plot" /\ plot_i = PLOT_COUNT
    /\ pc' = "predict"
    /\ stage_log' = Append(stage_log, Return("plot"))
    /\ UNCHANGED <<failure, error, dir, bound, previewVars, parseLocals, parsed,
                   datasets, model, epoch, plotVars, call>>

\* plt.show()
PlotShow ==
    /\ pc = "plot" /\ plot_i = PLOT_COUNT
    /\ pc' = "done"
    /\ stage_log' = Append(stage_log, Return("plot"))
    /\ UNCHANGED <<failure, error, dir, bound, previewVars, parseLocals, parsed,
                   datasets, model, epoch, plotVars, call>>

Next ==
    \/ Fetch \/ ShowMesh \/ Preview
    \/ ParseStart \/ ParseFolder \/ ParseTrainFile \/ ParseTrainDone
    \/ ParseTestFile \/ ParseTestDone \/ ParseReturn
    \/ BuildDatasets \/ DefineModel \/ Compile \/ FitEpoch \/ FitDone
    \/ Predict \/ PlotStep \/ PlotShow

Spec == Init /\ [][Next]_vars

(* ---------------------------- direct calls ---------------------------- *)
\* The notebook's functions called on their own, on arguments drawn from
\* bounded sets; `call` holds the arguments and the result of the call.

\* A tensor of the given shape filled with entries of -1..2.
Fill(shape, seed) == Tensor(shape, LAMBDA f : ((seed * (f + 1) + f * f) % 4) - 1)

\* A batch of B flattened identity matrices.
IdentityBatch(B, n) ==
    Tensor(<<B, n * n>>, LAMBDA f : IF (f % (n * n)) \div n = f % n THEN 1 ELSE 0)

CallClouds == [1..NUM_POINTS -> {P0, P1}]
CallLabels == {0, NUM_CLASSES - 1}

\* Arrays (points, labels) of exactly n examples.
CallArrays(n) ==
    {<<pts, lbls>> : pts \in [1..n -> CallClouds], lbls \in [1..n -> CallLabels]}

\* OrthogonalRegularizer(num_features)(x).
CallRegularizer ==
    /\ pc = "call" /\ call.args.fn = "regularizer"
    /\ LET n == call.args.num_features
           x == call.args.x
       IN  call' = [fn |-> "regularizer", num_features |-> n, x |-> x,
                    result |-> OrthogonalRegularizer(n, x)]
    /\ pc' = "called"
    /\ UNCHANGED <<failure, error, dir, bound, stage_log, previewVars,
                   parseLocals, parsed, datasets, model, epoch, plotVars>>

\* tnet on a freshly created layer: the weights are the initializers' values.
CallTnet ==
    /\ pc = "call" /\ call.args.fn = "tnet"
    /\ LET n == call.args.num_features
           inputs == call.args.inputs
           h == call.args.h
           kernel == TnetKernelInit(HiddenWidth, n)
           bias == TnetBiasInit(n)
       IN  call' = [fn |-> "tnet", num_features |-> n, inputs |-> inputs,
                    h |-> h, kernel |-> kernel, bias |-> bias,
                    result |-> Tnet(inputs, n, h, kernel, bias)]
    /\ pc' = "called"
    /\ UNCHANGED <<failure, error, dir, bound, stage_log, previewVars,
                   parseLocals, parsed, datasets, model, epoch, plotVars>>

\* The clouds of the direct calls of augment: one point, and two different
\* points.
AugmentClouds == {<<P1>>, <<P0, P1>>}

\* The clouds of the direct passes over train_dataset: one point.
TrainClouds == {<<P0>>, <<P1>>}

\* The arrays (points, labels) of the direct passes over train_dataset: one
\* example, and two examples of different clouds and labels.
TrainArrays ==
    {<<<<c>>, <<l>>>> : c \in TrainClouds, l \in CallLabels}
    \cup {<< <<<<P0>>, <<P1>>>>, <<0, NUM_CLASSES - 1>> >>}

\* The arguments (points, label) of the direct calls of augment.
AugmentArguments ==
    {<<c, l>> : c \in {x \in AugmentClouds : Len(x) = 1}, l \in CallLabels}
    \cup {<<c, NUM_CLASSES - 1>> : c \in {x \in AugmentClouds : Len(x) > 1}}

\* augment(points, label), over every draw of the jitter and of the order.
CallAugment ==
    /\ pc = "call" /\ call.args.fn = "augment"
    /\ LET pts == call.args.points
           l == call.args.label
       IN  \E noise \in UniformOutcomes(Shape(pts), JITTER_MIN, JITTER_MAX) :
              \E r \in AugmentWith(pts, l, noise) :
                 call' = [fn |-> "augment", points |-> pts, label |-> l,
                          result |-> r]
    /\ pc' = "called"
    /\ UNCHANGED <<failure, error, dir, bound, stage_log, previewVars,
                   parseLocals, parsed, datasets, model, epoch, plotVars>>

\* test_dataset built from the globals test_points and test_labels, and one
\* pass over it.
CallIterTest ==
    /\ pc = "call" /\ call.args.fn = "iter_test"
    /\ test_dataset' = TestDataset(test_points, test_labels)
    /\ bound' = bound \cup {"test_dataset"}
    /\ \E r \in IterOutcomes(test_dataset') :
          call' = [fn |-> "iter_test", points |-> test_points,
                   labels |-> test_labels, result |-> r]
    /\ pc' = "called"
    /\ UNCHANGED <<failure, error, dir, stage_log, previewVars, parseLocals,
                   parsed, train_dataset, model, epoch, plotVars>>

\* train_dataset built from the globals train_points and train_labels, and
\* one pass over it: its three transformations in turn, over every order of
\* the examples, every draw of the jitter and every order of the points.
CallIterTrain ==
    /\ pc = "call" /\ call.args.fn = "iter_train"
    /\ train_dataset' = TrainDataset(train_points, train_labels)
    /\ bound' = bound \cup {"train_dataset"}
    /\ LET ops == train_dataset'.ops
       IN  \E shuffled \in ApplyOpWith(ops[1], {train_dataset'.examples}, <<>>) :
             \E noises \in NoiseDraws(shuffled) :
               \E mapped \in ApplyOpWith(ops[2], {shuffled}, noises) :
                 \E r \in ApplyOpWith(ops[3], {mapped}, noises) :
                    call' = [fn |-> "iter_train", points |-> train_points,
                             labels |-> train_labels, result |-> r]
    /\ pc' = "called"
    /\ UNCHANGED <<failure, error, dir, stage_log, previewVars, parseLocals,
                   parsed, test_dataset, model, epoch, plotVars>>

\* The direct calls and their arguments.
RegularizerInputs ==
    UNION {{[fn |-> "regularizer", num_features |-> n, x |-> x] :
              x \in {IdentityBatch(B, n)}
                    \cup {Fill(<<B, n * n>>, sd) : sd \in 0..MaxSeed}} :
             n \in 1..MaxFeatures, B \in 1..MaxBatch}

TnetInputs ==
    {[fn |-> "tnet", num_features |-> n,
      inputs |-> Fill(<<B, NUM_POINTS, n>>, sd),
      h |-> Fill(<<B, HiddenWidth>>, sh)] :
       n \in 1..MaxFeatures, B \in 1..MaxBatch, sd \in 0..MaxSeed,
       sh \in 0..MaxSeed}

AugmentInputs ==
    {[fn |-> "augment", points |-> a[1], label |-> a[2]] : a \in AugmentArguments}

IterTestInputs ==
    {[fn |-> "iter_test", points |-> a[1], labels |-> a[2]] :
       a \in UNION {CallArrays(n) : n \in 1..MaxExamples}}

IterTrainInputs ==
    {[fn |-> "iter_train", points |-> a[1], labels |-> a[2]] : a \in TrainArrays}

\* The names a direct call reads: the functions and the class the notebook
\* defines, and the batch size of the datasets.
CallNames == {"augment", "conv_bn", "dense_bn", "OrthogonalRegularizer", "tnet",
              "BATCH_SIZE"}

\* Direct calls are made once the imports and the definitions have run, one
\* call on one choice of arguments.
InitCallOn(a) ==
    InitAt("call", <<>>, Imports \cup CallNames, Pending(a), NoArrays)

\* A pass over test_dataset is made with the test arrays bound.
InitIterTestOn(a) ==
    InitAt("call", <<>>, Imports \cup CallNames \cup {"test_points", "test_labels"},
           Pending([fn |-> a.fn]), <<<<>>, <<>>, a.points, a.labels>>)

\* A pass over train_dataset is made with the train arrays bound.
InitIterTrainOn(a) ==
    InitAt("call", <<>>, Imports \cup CallNames \cup {"train_points", "train_labels"},
           Pending([fn |-> a.fn]), <<a.points, a.labels, <<>>, <<>>>>)

\* Direct calls of the regularizer and of tnet.
InitCalls ==
    \/ \E a \in RegularizerInputs : InitCallOn(a)
    \/ \E a \in TnetInputs : InitCallOn(a)

NextCalls == CallRegularizer \/ CallTnet

SpecCalls == InitCalls /\ [][NextCalls]_vars

\* Direct calls of augment and passes over the datasets.
InitAugment ==
    \/ \E a \in AugmentInputs : InitCallOn(a)
    \/ \E a \in IterTestInputs : InitIterTestOn(a)
    \/ \E a \in IterTrainInputs : InitIterTrainOn(a)

NextAugment == CallIterTest \/ CallAugment \/ CallIterTrain

SpecAugment == InitAugment /\ [][NextAugment]_vars

(* ------------------------------ claims -------------------------------- *)
\* The stages in the order of the notebook's cells; between the fetch and
\* parse_dataset a preview cell loads, samples and plots one mesh.
StageOrder ==
    <<"fetch", "preview", "parse", "datasets", "model", "fit", "inference", "plot">>

RECURSIVE StageEvents(_)
StageEvents(stages) ==
    IF stages = <<>> THEN <<>>
    ELSE <<Start(Head(stages)), Return(Head(stages))>> \o StageEvents(Tail(stages))

IsPrefix(a, b) == Len(a) <= Len(b) /\ a = SubSeq(b, 1, Len(a))

\* C1: the stages run as one linear sequence: fetch, parse_dataset, dataset
\* construction, model definition, compile/fit, inference, plotting; a stage
\* starts only after the stage before it has returned, at most one stage is in
\* progress, and no stage is entered again.
C1_LinearStages ==
    /\ IsPrefix(stage_log, StageEvents(StageOrder))
    /\ IsPrefix(SelectSeq(stage_log, LAMBDA e : e[2] # "preview"),
                StageEvents(SelectSeq(StageOrder, LAMBDA st : st # "preview")))
    /\ \A st \in Range(StageOrder) :
          Cardinality({k \in DOMAIN stage_log : stage_log[k] = Start(st)}) <= 1

C1_Witness == pc = "done" /\ stage_log = StageEvents(StageOrder)

AllClouds ==
    Range(p_train_points) \cup Range(p_test_points)
    \cup Range(train_points) \cup Range(test_points)

\* C2: every point cloud parse_dataset appends or returns has exactly
\* num_points points of exactly 3 coordinates each, which is the input shape
\* (NUM_POINTS, 3) of the model.
C2_FixedShape ==
    /\ \A c \in AllClouds :
          /\ Len(c) = num_points
          /\ \A k \in DOMAIN c : Len(c[k]) = 3
          /\ Shape(c) = <<NUM_POINTS, 3>>
    /\ model.state # "undefined" =>
          \A c \in Range(train_points) \cup Range(test_points) :
             Shape(c) = model.input_shape

C2_Witness ==
    /\ model.state = "built"
    /\ Len(train_points) > 0 /\ Len(test_points) > 0

\* The k-th cloud and label of one split agree with the file sampled for them.
Paired(pts, lbls, src, cmap) ==
    /\ Len(pts) = Len(lbls) /\ Len(pts) = Len(src)
    /\ \A k \in DOMAIN pts :
          /\ lbls[k] \in DOMAIN cmap
          /\ lbls[k] \in 0..(Len(folders) - 1)
          /\ folders[lbls[k] + 1].name = src[k].folder
          /\ cmap[lbls[k]] = src[k].folder
          /\ Range(pts[k]) \subseteq src[k].file.mesh.surface

\* C3: after every complete iteration of parse_dataset's loops, and in its
\* result, points and labels of a split have the same length, and the k-th
\* label is the index of the folder the k-th cloud was sampled from, a key of
\* class_map.
C3_PairedLabels ==
    /\ Paired(p_train_points, p_train_labels, train_src, class_map)
    /\ Paired(p_test_points, p_test_labels, test_src, class_map)
    /\ phase = "returned" =>
          /\ Paired(train_points, train_labels, train_src, CLASS_MAP)
          /\ Paired(test_points, test_labels, test_src, CLASS_MAP)

C3_Witness ==
    /\ phase = "returned"
    /\ \E a, b \in DOMAIN train_labels : train_labels[a] # train_labels[b]
    /\ Len(test_labels) > 0

ClassDirs(d) == SelectSeq(d, LAMBDA e : e.isdir)

\* C4: for a data directory of n class directories and the README, the class
\* map returned by parse_dataset has exactly the keys 0..n-1, class_map[i] is
\* the name of the i-th class directory, every class directory has exactly one
\* id and the README has none.
C4_ClassMapOfDirectories ==
    (phase = "returned" /\ Readme \in Range(dir)) =>
        LET cds == ClassDirs(dir)
        IN  /\ DOMAIN CLASS_MAP = 0..(Len(cds) - 1)
            /\ \A i \in DOMAIN CLASS_MAP : CLASS_MAP[i] = cds[i + 1].name
            /\ \A k \in DOMAIN cds :
                  Cardinality({i \in DOMAIN CLASS_MAP : CLASS_MAP[i] = cds[k].name}) = 1
            /\ \A i \in DOMAIN CLASS_MAP : CLASS_MAP[i] # Readme.name

\* C5: CLASS_MAP is bound once, by parse_dataset's return, and no step after
\* it changes an entry; it is read only by the plotting loop, at most twice
\* per iteration.
C5_ClassMapReadOnly ==
    [][ /\ CLASS_MAP' # CLASS_MAP => (pc = "parse" /\ pc' = "datasets")
        /\ phase = "returned" => CLASS_MAP' = CLASS_MAP
        /\ class_map_reads' # class_map_reads =>
              /\ pc = "plot"
              /\ class_map_reads' \in {class_map_reads + 1, class_map_reads + 2}
      ]_vars

C5_Witness ==
    /\ pc = "done" /\ class_map_reads = 2 * PLOT_COUNT
    /\ CLASS_MAP = class_map /\ CLASS_MAP # EmptyMap

\* The files parse_dataset hands to trimesh.load, in its loops' order.
RECURSIVE FilesInOrder(_)
FilesInOrder(fs) ==
    IF fs = <<>> THEN <<>>
    ELSE GlobFiles(Head(fs), "train") \o GlobFiles(Head(fs), "test")
         \o FilesInOrder(Tail(fs))

ParseFailed ==
    LET files == FilesInOrder(GlobFolders(dir))
        n == Len(load_log)
    IN  /\ pc = "failed" /\ phase # "returned"
        \* every file up to the failing one was loaded once, in order
        /\ n >= 1 /\ n <= Len(files)
        /\ load_log = [k \in 1..n |-> files[k].name]
        /\ ~files[n].mesh.ok
        /\ \A k \in 1..(n - 1) : files[k].mesh.ok
        /\ Len(p_train_points) + Len(p_test_points) = n - 1
        \* nothing was returned or bound
        /\ bound \cap {"train_points", "test_points", "train_labels",
                       "test_labels", "CLASS_MAP"} = {}
        /\ train_points = <<>> /\ test_points = <<>>
        /\ train_labels = <<>> /\ test_labels = <<>> /\ CLASS_MAP = EmptyMap

\* C6: a mesh file that fails to load or sample ends parse_dataset with the
\* exception: the file is neither retried nor skipped, nothing is returned or
\* bound to the globals, and no step follows the failure.
C6_FailurePropagates ==
    [][ /\ failure # "parse"
        /\ (pc = "parse" /\ LET files == FilesInOrder(folders)
                                n == Len(load_log) + 1
                            IN  /\ phase \in {"train", "test"}
                                /\ n <= Len(files)
                                /\ load_log' # load_log
                                /\ ~files[n].mesh.ok)
              => failure' = "parse"
        /\ failure' = "parse" => ParseFailed'
      ]_vars

C6_Witness ==
    /\ failure = "parse" /\ Len(load_log) > 1
    /\ Len(p_train_points) > 0 /\ fi > 0

\* The b-th matrix of a batch of flattened n x n matrices, entry [i, k].
MatrixEntry(x, n, b, i, k) == x.data[(b * n + i) * n + k + 1]

\* the sum of the squared entries of X_b . X_b^T - I
Deviation(x, n, b) ==
    SumSeq([f \in 1..(n * n) |->
              LET i == (f - 1) \div n
                  j == (f - 1) % n
                  dot == SumSeq([k \in 1..n |->
                                   MatrixEntry(x, n, b, i, k - 1) * MatrixEntry(x, n, b, j, k - 1)])
                  d == dot - (IF i = j THEN 1 ELSE 0)
              IN  d * d])

\* C7: for a batch of B >= 1 flattened matrices the penalty is l2reg times the
\* sum over the batch of the squared deviation of X_b . X_b^T from the
\* identity; it is never negative, and zero for a batch of identities.
C7_PenaltyPerMatrix ==
    call.fn = "regularizer" =>
        LET n == call.num_features
            B == call.x.shape[1]
        IN  /\ call.result = L2REG * SumSeq([b \in 1..B |-> Deviation(call.x, n, b - 1)])
            /\ call.result >= 0
            /\ call.x = IdentityBatch(B, n) => call.result = 0

\* out is a reordering of the sequence in (the same elements, as often).
IsPermutation(out, in) ==
    /\ Len(out) = Len(in)
    /\ \A e \in Range(in) \cup Range(out) :
          Cardinality({k \in DOMAIN in : in[k] = e})
            = Cardinality({k \in DOMAIN out : out[k] = e})

\* out is the cloud in, every coordinate displaced by an offset of
\* [JITTER_MIN, JITTER_MAX), its points then reordered.
IsJittered(q, p) ==
    /\ Len(q) = Len(p)
    /\ \A c \in DOMAIN p : q[c] - p[c] >= JITTER_MIN /\ q[c] - p[c] < JITTER_MAX

RECURSIVE IsAugmented(_, _)
IsAugmented(out, in) ==
    IF in = <<>> THEN out = <<>>
    ELSE \E k \in DOMAIN out :
            /\ IsJittered(out[k], in[1])
            /\ IsAugmented(RemoveAt(out, k), Tail(in))

\* out holds the examples in, each once, in some order, augmented and with
\* its label.
RECURSIVE IsAugmentedPass(_, _)
IsAugmentedPass(out, in) ==
    IF in = <<>> THEN out = <<>>
    ELSE \E k \in DOMAIN out :
            /\ out[k].label = in[1].label
            /\ IsAugmented(out[k].points, in[1].points)
            /\ IsAugmentedPass(RemoveAt(out, k), Tail(in))

RECURSIVE Flatten(_)
Flatten(batches) ==
    IF batches = <<>> THEN <<>> ELSE Head(batches) \o Flatten(Tail(batches))

\* C8: augment returns the label unchanged and the jittered points, none
\* dropped or duplicated, in some order; a pass over test_dataset yields the
\* parsed test examples unmodified, reordered and batched, and only
\* train_dataset maps augment over its examples: a pass over it yields every
\* parsed train example once, in some order, augmented and with its label.
C8_AugmentTrainOnly ==
    /\ call.fn = "augment" =>
          /\ call.result.label = call.label
          /\ IsAugmented(call.result.points, call.points)
    /\ call.fn = "iter_test" =>
          /\ IsPermutation(Flatten(call.result),
                           FromTensorSlices(call.points, call.labels))
          /\ \A b \in Range(call.result) : Len(b) >= 1 /\ Len(b) <= BATCH_SIZE
    /\ call.fn = "iter_train" =>
          LET out == Flatten(call.result)
          IN  IsAugmentedPass(out, FromTensorSlices(call.points, call.labels))

\* augment has swapped two different points and jittered by both extremes.
C8_Witness ==
    /\ call.fn = "augment"
    /\ Len(call.points) = 2
    /\ call.points[1] # call.points[2]
    /\ call.result.points[1][1] - call.points[2][1] = JITTER_MIN
    /\ call.result.points[2][2] - call.points[1][2] = JITTER_MAX - 1

\* C9: a freshly built tnet has an all-zero kernel and the flattened identity
\* as bias in its final Dense layer, so that the transformation it predicts is
\* the identity for every input, its result equals its inputs, and the
\* orthogonality penalty of the transformation of a single example is zero.
C9_TnetStartsAsIdentity ==
    call.fn = "tnet" =>
        LET n == call.num_features
            B == call.inputs.shape[1]
            T == call.result.feat_T
        IN  /\ \A f \in DOMAIN call.kernel.data : call.kernel.data[f] = 0
            /\ \A f \in DOMAIN call.bias.data :
                  call.bias.data[f] = (IF (f - 1) \div n = (f - 1) % n THEN 1 ELSE 0)
            /\ T.shape = <<B, n, n>>
            /\ \A b \in 0..(B - 1), i, j \in 0..(n - 1) :
                  MatrixEntry(T, n, b, i, j) = (IF i = j THEN 1 ELSE 0)
            /\ call.result.output = call.inputs
            /\ \A b \in 0..(B - 1) :
                  OrthogonalRegularizer(n,
                      Tensor(<<1, n * n>>, LAMBDA f : T.data[b * n * n + f + 1])) = 0
            /\ B = 1 => call.result.penalty = 0

C9_Witness ==
    /\ call.fn = "tnet" /\ call.num_features = MaxFeatures
    /\ \E f \in DOMAIN call.h.data : call.h.data[f] # 0
    /\ \E f, g \in DOMAIN call.inputs.data : call.inputs.data[f] # call.inputs.data[g]

AllLabels ==
    Range(p_train_labels) \cup Range(p_test_labels)
    \cup Range(train_labels) \cup Range(test_labels)

ClassIdsAgree ==
    /\ \A l \in AllLabels : 0 <= l /\ l < NUM_CLASSES
    /\ phase = "returned" =>
          /\ \A p \in 0..(NUM_CLASSES - 1) : p \in DOMAIN CLASS_MAP
          /\ \A l \in Range(train_labels) \cup Range(test_labels) : l \in DOMAIN CLASS_MAP
    /\ error # "KeyError"

\* C10 as stated: for any dataset directory every label is below NUM_CLASSES
\* and every predicted index and true label is a key of CLASS_MAP, so that no
\* lookup of the plotting loop fails.
C10_AnyDirectory == ClassIdsAgree

\* C10, amended: the same when the glob of the data directory matches exactly
\* NUM_CLASSES entries, as it does for ModelNet10.
C10_TenClasses == Len(GlobFolders(dir)) = NUM_CLASSES => ClassIdsAgree

C10_Witness ==
    /\ Len(GlobFolders(dir)) = NUM_CLASSES
    /\ pc = "done" /\ class_map_reads = 2 * PLOT_COUNT
    /\ \E l \in Range(test_labels) : l = NUM_CLASSES - 1

====
